---- MODULE Spec2Model ----
(***************************************************************************)
(* PlotCouncil renderer (src/server/main.py): the /render handler, the     *)
(* isolated process runner, the result extractor, the artifact archiver    *)
(* and the worker program that _build_worker_script synthesizes and the    *)
(* child process executes.                                                 *)
(*                                                                         *)
(* Texts are sequences: a source text is a sequence of characters, a log   *)
(* text a sequence of tokens (one token per chunk the code concatenates),  *)
(* a captured stream a sequence of lines.  An Optional value is a sequence *)
(* of length at most one (<<>> is None).  Time is abstract: the deadline   *)
(* of subprocess.run may expire at any moment the child is still running.  *)
(* The user's script is the environment: it is executed one operation at a *)
(* time, at most MaxUserOps state-changing operations per script.          *)
(***************************************************************************)
EXTENDS Naturals, Sequences, FiniteSets, TLC

(* ------------------------------ bounds -------------------------------- *)

\* Longest submitted source text, in characters.
MaxCodeLen == 1

\* Most state-changing operations one user script performs while it runs.
MaxUserOps == 2

\* Most tick values one tick-label callback raises on during one draw.
MaxBadTicks == 2

\* Most lines one user script writes past the redirection.
MaxDirectWrites == 1

\* Most requests the server handles at the same time.
MaxHandlers == 2

(* ------------------------- program constants -------------------------- *)

\* "pixel_std < 2.0 or center_std < 2.0"; intensities are in tenths here.
BlankThreshold == 20

entry_points ==
    << "create_plot", "create_figure", "create_replication", "build_plot",
       "build_figure", "generate_plot", "main" >>

(* ------------------------------- values ------------------------------- *)

None == <<>>
Some(v) == <<v>>

\* Characters of a source text: a blank, a line break "\r\n", a line break
\* "\n", and any other character.
Chars == {"sp", "crlf", "lf", "x"}
Whitespace == {"sp", "crlf", "lf"}

RECURSIVE SeqsUpTo(_, _)
SeqsUpTo(S, n) ==
    IF n = 0 THEN {<<>>}
    ELSE LET shorter == SeqsUpTo(S, n - 1)
         IN  shorter \cup {Append(s, c) : s \in shorter, c \in S}

\* The texts a caller submits ("lf" alone is produced by the synthesizer,
\* callers are drawn over the other three characters).
Codes == SeqsUpTo(Chars \ {"lf"}, MaxCodeLen)

\* str.strip(): leading and trailing whitespace removed.
RECURSIVE LStrip(_)
LStrip(s) == IF s # <<>> /\ Head(s) \in Whitespace THEN LStrip(Tail(s)) ELSE s

RECURSIVE RStrip(_)
RStrip(s) ==
    IF s # <<>> /\ s[Len(s)] \in Whitespace
    THEN RStrip(SubSeq(s, 1, Len(s) - 1))
    ELSE s

Strip(s) == RStrip(LStrip(s))

\* str.replace("\r\n", "\n")
ReplaceCrLf(s) == [i \in 1..Len(s) |-> IF s[i] = "crlf" THEN "lf" ELSE s[i]]

\* Exceptions: a class and a message.  A message is a pair of numbers:
\* <<0, 0>> for an exception the script raises itself, <<f, k>> for the
\* failure of tick-label callback f on its k-th bad tick value.
NoExc == [cls |-> "None", msg |-> <<0, 0>>]
UserError == [cls |-> "ValueError", msg |-> <<0, 0>>]
UserTypeError == [cls |-> "TypeError", msg |-> <<0, 0>>]
RenderError == [cls |-> "RuntimeError", msg |-> <<0, 0>>]
TickError(f, k) == [cls |-> "ValueError", msg |-> <<f, k>>]

\* Log tokens.
NL == [t |-> "nl"]
Out == [t |-> "out"]
\* traceback.format_exc(): ends with "<class>: <message>".
format_exc(e) == [t |-> "traceback", cls |-> e.cls, msg |-> e.msg]
\* "FORMATTER_ERROR suppressed: " + exc.__class__.__name__ + ": " + str(exc)
FormatterErrorLine(e) == [t |-> "formatter_error", cls |-> e.cls, msg |-> e.msg]
\* "BLANK_PLOT_DETECTED pixel_std={:.4f} center_std={:.4f}"
BlankPlotLine(p, c) == [t |-> "blank_plot_detected", pixel_std |-> p, center_std |-> c]
StderrToken(line) == [t |-> "stderr", kind |-> line.kind]

\* Lines of a captured stream: a whitespace-only line, a line of free text,
\* a line that decodes as JSON but not to an object, and a line that
\* decodes to a JSON object (val: its keys and values).
NoFields == [k \in {} |-> None]
BlankTextLine == [kind |-> "blank", val |-> NoFields]
TextLine == [kind |-> "text", val |-> NoFields]
ScalarLine == [kind |-> "scalar", val |-> NoFields]
ObjectLine(obj) == [kind |-> "object", val |-> obj]
\* What a script (or a subprocess or C library it calls) can write to the
\* child's real standard output, past the redirection: "{}" is an object
\* with none of the payload's fields.
DirectLines == {BlankTextLine, TextLine, ScalarLine, ObjectLine(NoFields)}

\* Figures: the panels (fig.axes) and who created the figure.  A panel has
\* a source (drawn by the script, drawn by an entry point on the active
\* figure, held by the figure an entry point returned, the "No plot was
\* generated" placeholder, the execution-error placeholder) and the
\* tick-label formatters installed on its axes, in draw order.  A formatter
\* has a class, the number of tick values it raises on per draw, and
\* whether the harness has wrapped it.
NewFigure(who) == [axes |-> <<>>, by |-> who]
Panel(src) == [src |-> src, fmts |-> <<>>]
Formatter(cls, bad) == [cls |-> cls, bad |-> bad, wrapped |-> FALSE]
FormatterChoices ==
    {Formatter("FuncFormatter", b) : b \in 1..MaxBadTicks}
        \cup {Formatter("Formatter", 1)}

\* The failing formatter calls one draw of a figure makes, in order.
RECURSIVE TickCalls(_, _, _)
TickCalls(fmt, f, k) ==
    IF k > fmt.bad THEN <<>>
    ELSE <<[f |-> f, tick |-> k, wrapped |-> fmt.wrapped]>> \o TickCalls(fmt, f, k + 1)

RECURSIVE FormatterCalls(_, _)
FormatterCalls(fmts, f) ==
    IF fmts = <<>> THEN <<>>
    ELSE TickCalls(Head(fmts), f, 1) \o FormatterCalls(Tail(fmts), f + 1)

RECURSIVE PanelCalls(_, _)
PanelCalls(axes, f) ==
    IF axes = <<>> THEN <<>>
    ELSE FormatterCalls(Head(axes).fmts, f)
            \o PanelCalls(Tail(axes), f + Len(Head(axes).fmts))

DrawCalls(figure) == PanelCalls(figure.axes, 1)

\* An encoded image: the format, the figure it was rendered from and the
\* sources of the panels it shows.  base64 wraps bytes into text.
Render(format, id, figure) ==
    [format |-> format, fig |-> id,
     panels |-> [i \in 1..Len(figure.axes) |-> figure.axes[i].src]]
b64encode(bytes) == [b64 |-> bytes]
b64decode(text) == text.b64

\* The requests a caller submits (the numeric fields at their defaults).
Requests == {[code |-> c, width |-> 12, height |-> 8, dpi |-> 150] : c \in Codes}
\* No request received yet.
NoRequest == [code |-> <<>>, width |-> 0, height |-> 0, dpi |-> 0]

\* The worker's payload dictionary.
EmptyPayload == [png |-> None, svg |-> None, logs |-> <<>>, error |-> "None"]

\* The threads of the server's pool that run render_plot, and what one of
\* them holds before it has received a request.
Handlers == 1..MaxHandlers
IdleHandler ==
    [pc |-> "idle", request |-> NoRequest, artifact_id |-> None,
     worker_script |-> None, tmpdir |-> None, outcome |-> None,
     response |-> None]

(* ------------------------------- state -------------------------------- *)

VARIABLES
    \* render_plot and _run_worker_script (the parent process)
    pc,               \* "idle", "waiting" (inside subprocess.run), "done"
    request,          \* the submitted source text
    artifact_id,      \* Optional: the uuid4 of this request
    worker_script,    \* Optional: the synthesized program text
    scratch,          \* the scratch directories that exist, with their files
    artifacts,        \* ARTIFACT_ROOT: the artifact directories, with their files
    response,         \* Optional: what the caller receives
    uuids,            \* number of uuid4() calls made
    tmpCount,         \* number of scratch directories ever created
    spawned,          \* number of child processes ever spawned
    timedOut,         \* subprocess.run raised TimeoutExpired
    handlers,         \* the requests handled at the same time, one thread each
    \* the child process as the parent sees it
    stdout,           \* lines written to the child's real standard output
    stderr,           \* lines written to the child's real standard error
    returncode,       \* Optional: the exit status passed to sys.exit
    \* the worker program (the child's memory)
    wpc,              \* position in the worker program
    nops,             \* operations the user script has performed
    log_stream,       \* the StringIO that stdout and stderr are redirected to
    figs,             \* pyplot's figures, in creation order; the last is active
    fig,              \* the figure the harness selected (0: not yet assigned)
    idx,              \* position of the discovery loop in entry_points
    lastCalled,       \* position of the entry point invoked last in the loop
    lastReturned,     \* history: that call returned a populated figure
    lastRaised,       \* history: how that call failed ("None": it did not)
    formatter_errors, \* the list _safe appends to
    suppressed,       \* history: the failures _safe has swallowed
    pixel_std,        \* Optional
    center_std,       \* Optional
    payload,          \* the payload dictionary
    exc,              \* the exception being handled by "except Exception"
    raisedAt          \* history: where that exception was raised

parentVars ==
    << pc, request, artifact_id, worker_script, scratch, artifacts, response,
       uuids, tmpCount, spawned, timedOut, handlers >>
processVars == << stdout, stderr, returncode >>
workerVars ==
    << wpc, nops, log_stream, figs, fig, idx, lastCalled, lastReturned, lastRaised,
       formatter_errors,
       suppressed, pixel_std, center_std, payload, exc, raisedAt >>
vars == << parentVars, processVars, workerVars >>

NoneSuppressed == [n |-> 0, first |-> NoExc]

\* The worker's memory before the program starts and after the process ends.
WorkerMemoryIs(position) ==
    /\ wpc = position
    /\ nops = 0
    /\ log_stream = <<>>
    /\ figs = <<>>
    /\ fig = 0
    /\ idx = 0
    /\ lastCalled = 0
    /\ lastReturned = FALSE
    /\ lastRaised = "None"
    /\ formatter_errors = <<>>
    /\ suppressed = NoneSuppressed
    /\ pixel_std = None
    /\ center_std = None
    /\ payload = EmptyPayload
    /\ exc = NoExc
    /\ raisedAt = "nowhere"

Init ==
    /\ pc = "idle"
    /\ request = NoRequest
    /\ artifact_id = None
    /\ worker_script = None
    /\ scratch = {}
    /\ artifacts = {}
    /\ response = None
    /\ uuids = 0
    /\ tmpCount = 0
    /\ spawned = 0
    /\ timedOut = FALSE
    /\ handlers = [h \in Handlers |-> IdleHandler]
    /\ stdout = <<>>
    /\ stderr = <<>>
    /\ returncode = None
    /\ WorkerMemoryIs("none")

(* ------------------- the worker: the user's script -------------------- *)

\* The child runs only while the parent waits in subprocess.run.
Running(position) == pc = "waiting" /\ wpc = position

Active(fs) == Len(fs)

\* plt.gcf(): the active figure, created when there is none.
gcf(fs, who) == IF fs = <<>> THEN <<NewFigure(who)>> ELSE fs

AddPanel(fs, id, panel) == [fs EXCEPT ![id].axes = Append(@, panel)]

\* The handler of "except Exception" is entered.
Raise(e, where) ==
    /\ wpc' = "except"
    /\ exc' = e
    /\ raisedAt' = where

\* print(...) inside the script: captured by redirect_stdout.
User_Print ==
    /\ Running("exec")
    /\ nops < MaxUserOps
    /\ nops' = nops + 1
    /\ log_stream' = Append(log_stream, Out)
    /\ UNCHANGED << parentVars, processVars, wpc, figs, fig, idx, lastCalled, lastReturned, lastRaised,
                    formatter_errors, suppressed, pixel_std, center_std,
                    payload, exc, raisedAt >>

\* A write that bypasses the redirection (sys.__stdout__, os.write(1, ..),
\* a subprocess that inherits the descriptor).
User_DirectWrite ==
    /\ Running("exec")
    /\ nops < MaxUserOps
    /\ Len(stdout) < MaxDirectWrites
    /\ nops' = nops + 1
    /\ \E line \in DirectLines : stdout' = Append(stdout, line)
    /\ UNCHANGED << parentVars, stderr, returncode, wpc, log_stream, figs,
                    fig, idx, lastCalled, lastReturned, lastRaised, formatter_errors, suppressed,
                    pixel_std, center_std, payload, exc, raisedAt >>

\* plt.figure()
User_NewFigure ==
    /\ Running("exec")
    /\ nops < MaxUserOps
    /\ nops' = nops + 1
    /\ figs' = Append(figs, NewFigure("user"))
    /\ UNCHANGED << parentVars, processVars, wpc, log_stream, fig, idx,
                    lastCalled, lastReturned, lastRaised, formatter_errors, suppressed, pixel_std,
                    center_std, payload, exc, raisedAt >>

\* plt.plot(..), plt.subplots(), ..: a panel on the active figure.
User_Plot ==
    /\ Running("exec")
    /\ nops < MaxUserOps
    /\ nops' = nops + 1
    /\ LET fs == gcf(figs, "user")
       IN  figs' = AddPanel(fs, Active(fs), Panel("script"))
    /\ UNCHANGED << parentVars, processVars, wpc, log_stream, fig, idx,
                    lastCalled, lastReturned, lastRaised, formatter_errors, suppressed, pixel_std,
                    center_std, payload, exc, raisedAt >>

\* ax.xaxis.set_major_formatter(..) on the newest panel of the active figure.
User_SetFormatter ==
    /\ Running("exec")
    /\ nops < MaxUserOps
    /\ figs # <<>>
    /\ figs[Active(figs)].axes # <<>>
    /\ nops' = nops + 1
    /\ \E f \in FormatterChoices :
          LET a == Active(figs)
              p == Len(figs[a].axes)
          IN  figs' = [figs EXCEPT ![a].axes[p].fmts = Append(@, f)]
    /\ UNCHANGED << parentVars, processVars, wpc, log_stream, fig, idx,
                    lastCalled, lastReturned, lastRaised, formatter_errors, suppressed, pixel_std,
                    center_std, payload, exc, raisedAt >>

\* "plt.close = _noop; plt.clf = _noop; plt.cla = _noop": the patched
\* functions return None and leave the figures as they are.
_noop(fs) == fs

User_PltClose ==
    /\ Running("exec")
    /\ nops < MaxUserOps
    /\ nops' = nops + 1
    /\ figs' = _noop(figs)
    /\ UNCHANGED << parentVars, processVars, wpc, log_stream, fig, idx,
                    lastCalled, lastReturned, lastRaised, formatter_errors, suppressed, pixel_std,
                    center_std, payload, exc, raisedAt >>

\* fig.clf() / fig.clear(): methods of the figure object, which the worker
\* does not patch.
User_FigureClear ==
    /\ Running("exec")
    /\ nops < MaxUserOps
    /\ figs # <<>>
    /\ figs[Active(figs)].axes # <<>>
    /\ nops' = nops + 1
    /\ figs' = [figs EXCEPT ![Active(figs)].axes = <<>>]
    /\ UNCHANGED << parentVars, processVars, wpc, log_stream, fig, idx,
                    lastCalled, lastReturned, lastRaised, formatter_errors, suppressed, pixel_std,
                    center_std, payload, exc, raisedAt >>

\* The script draws the active figure itself (fig.canvas.draw(),
\* plt.savefig(..), plt.tight_layout()) while a formatter that raises is
\* installed: nothing is wrapped yet, the first failing call raises out of
\* exec.  (A draw that raises nothing changes nothing that is modelled.)
User_Draw ==
    /\ Running("exec")
    /\ figs # <<>>
    /\ DrawCalls(figs[Active(figs)]) # <<>>
    /\ LET c == Head(DrawCalls(figs[Active(figs)]))
       IN  Raise(TickError(c.f, c.tick), "exec")
    /\ nops' = 0
    /\ UNCHANGED << parentVars, processVars, log_stream, figs, fig, idx,
                    lastCalled, lastReturned, lastRaised, formatter_errors, suppressed, pixel_std,
                    center_std, payload >>

\* The script raises an exception derived from Exception.
User_Raise ==
    /\ Running("exec")
    /\ Raise(UserError, "exec")
    /\ nops' = 0
    /\ UNCHANGED << parentVars, processVars, log_stream, figs, fig, idx,
                    lastCalled, lastReturned, lastRaised, formatter_errors, suppressed, pixel_std,
                    center_std, payload >>

\* sys.exit(code) / exit() / raise SystemExit: SystemExit derives from
\* BaseException, "except Exception" does not catch it; it leaves the with
\* block and ends the program before the payload is printed.
User_SystemExit ==
    /\ Running("exec")
    /\ \E code \in {0, 1} : returncode' = Some(code)
    /\ wpc' = "exit"
    /\ exc' = [cls |-> "SystemExit", msg |-> <<0, 0>>]
    /\ raisedAt' = "exec"
    /\ nops' = 0
    /\ UNCHANGED << parentVars, stdout, stderr, log_stream, figs, fig,
                    idx, lastCalled, lastReturned, lastRaised, formatter_errors, suppressed, pixel_std,
                    center_std, payload >>

\* The script blocks (an endless loop, a wait that never returns).
User_Hang ==
    /\ Running("exec")
    /\ wpc' = "hung"
    /\ nops' = 0
    /\ UNCHANGED << parentVars, processVars, log_stream, figs, fig, idx,
                    lastCalled, lastReturned, lastRaised, formatter_errors, suppressed, pixel_std,
                    center_std, payload, exc, raisedAt >>

\* exec returns; "managers = ..; fig = managers[-1].canvas.figure if managers
\* else plt.gcf(); if not fig.axes: <discovery>".
User_Finish ==
    /\ Running("exec")
    /\ LET fs == gcf(figs, "harness")
       IN  /\ figs' = fs
           /\ fig' = Active(fs)
           /\ IF fs[Active(fs)].axes = <<>>
              THEN wpc' = "discover" /\ idx' = 1
              ELSE wpc' = "prepare" /\ idx' = 0
    /\ nops' = 0
    /\ UNCHANGED << parentVars, processVars, log_stream, lastCalled, lastReturned, lastRaised,
                    formatter_errors, suppressed, pixel_std, center_std,
                    payload, exc, raisedAt >>

(* ------------------- the worker: figure discovery --------------------- *)

\* What calling a name of entry_points does.  The name is bound to
\* something callable or not; the call may draw on the active pyplot figure,
\* raise, and return a value: None, an object without panels, a figure
\* (populated or not) or a sequence of objects and figures.
CandidateItems ==
    { [kind |-> "object", populated |-> FALSE],
      [kind |-> "figure", populated |-> FALSE],
      [kind |-> "figure", populated |-> TRUE] }

Candidates ==
    { [kind |-> "none", populated |-> FALSE, items |-> <<>>] }
        \cup { [kind |-> i.kind, populated |-> i.populated, items |-> <<>>] :
                 i \in CandidateItems }
        \cup { [kind |-> "sequence", populated |-> FALSE, items |-> its] :
                 its \in SeqsUpTo(CandidateItems, 2) }

NoCandidate == [kind |-> "none", populated |-> FALSE, items |-> <<>>]

\* The call returns a figure with panels, or a sequence that holds one.
ReturnsPopulated(beh) ==
    /\ beh.callable
    /\ beh.raises = "None"
    /\ \/ beh.returns.kind = "figure" /\ beh.returns.populated
       \/ /\ beh.returns.kind = "sequence"
          /\ \E i \in 1..Len(beh.returns.items) :
                 /\ beh.returns.items[i].kind = "figure"
                 /\ beh.returns.items[i].populated

\* The class of the exception a call raises.  "mismatch" is the TypeError of
\* the call itself, "fn()" with no arguments for a function that requires
\* some: the body does not run.  "TypeError" is one raised in the body.
ExceptionClass(raises) == IF raises = "mismatch" THEN "TypeError" ELSE raises

EntryBehaviours ==
    { [callable |-> FALSE, draws |-> FALSE, raises |-> "None", returns |-> NoCandidate],
      [callable |-> TRUE, draws |-> FALSE, raises |-> "mismatch", returns |-> NoCandidate] }
        \cup [callable : {TRUE}, draws : BOOLEAN,
              raises : {"TypeError", "ValueError"}, returns : {NoCandidate}]
        \cup [callable : {TRUE}, draws : BOOLEAN, raises : {"None"},
              returns : Candidates]

\* A variant of the scan that finds no populated item in any sequence.
FirstPopulated_none(items, i) == 0

\* "hasattr(item, 'axes') and item.axes": position of the first item of a
\* returned sequence with panels, 0 when there is none.
RECURSIVE FirstPopulated(_, _)
FirstPopulated(items, i) ==
    IF i > Len(items) THEN 0
    ELSE IF items[i].kind = "figure" /\ items[i].populated THEN i
    ELSE FirstPopulated(items, i + 1)

\* The figures after the call's own drawing.  What entry points draw on the
\* active pyplot figure is kept as one panel, however many of them draw.
HasEntryPanel(figure) == \E i \in 1..Len(figure.axes) : figure.axes[i].src = "entry"

AfterCall(fs, beh) ==
    IF beh.callable /\ beh.draws /\ ~HasEntryPanel(fs[Active(fs)])
    THEN AddPanel(fs, Active(fs), Panel("entry"))
    ELSE fs

\* One iteration of "for name in entry_points" whose call does not raise out
\* of the loop: the figures, the selected figure and whether the loop breaks.
TryEntryPoint(fs, fg, beh) ==
    LET fs1 == AfterCall(fs, beh)
        cand == beh.returns
        \* "fig = candidate; break" / "fig = item; break .. if fig.axes: break"
        adopted ==
            [figs |-> Append(fs1, [axes |-> <<Panel("returned")>>, by |-> "user"]),
             fig |-> Len(fs1) + 1, stop |-> TRUE]
        \* "fig = plt.gcf(); if fig.axes: break"
        current ==
            [figs |-> fs1, fig |-> Active(fs1),
             stop |-> fs1[Active(fs1)].axes # <<>>]
    IN  IF ~beh.callable
        THEN [figs |-> fs, fig |-> fg, stop |-> FALSE]
        ELSE IF ExceptionClass(beh.raises) = "TypeError"
        THEN [figs |-> fs1, fig |-> fg, stop |-> FALSE]
        ELSE IF cand.kind = "figure" /\ cand.populated
        THEN adopted
        ELSE IF cand.kind = "sequence"
        THEN IF FirstPopulated(cand.items, 1) # 0
             THEN adopted
             ELSE IF fs1[fg].axes # <<>>
             THEN [figs |-> fs1, fig |-> fg, stop |-> TRUE]
             ELSE current
        ELSE current

Worker_TryEntryPoint ==
    /\ Running("discover")
    /\ \E beh \in EntryBehaviours :
          IF beh.callable /\ ExceptionClass(beh.raises) \notin {"None", "TypeError"}
          THEN /\ Raise([cls |-> ExceptionClass(beh.raises), msg |-> <<0, 0>>], "entry")
               /\ figs' = AfterCall(figs, beh)
               /\ lastCalled' = idx
               /\ lastReturned' = FALSE
               /\ lastRaised' = beh.raises
               /\ idx' = 0
               /\ fig' = fig
          ELSE LET r == TryEntryPoint(figs, fig, beh)
               IN  /\ figs' = r.figs
                   /\ fig' = r.fig
                   /\ lastCalled' = IF beh.callable THEN idx ELSE 0
                   /\ lastReturned' = ReturnsPopulated(beh)
                   /\ lastRaised' = IF beh.callable THEN beh.raises ELSE "None"
                   /\ IF r.stop \/ idx = Len(entry_points)
                      THEN wpc' = "prepare" /\ idx' = 0
                      ELSE wpc' = "discover" /\ idx' = idx + 1
                   /\ UNCHANGED << exc, raisedAt >>
    /\ UNCHANGED << parentVars, processVars, nops, log_stream,
                    formatter_errors, suppressed, pixel_std, center_std,
                    payload >>

(* ----------------- the worker: rendering and the payload -------------- *)

\* "if isinstance(formatter, mticker.FuncFormatter): .. return
\* mticker.FuncFormatter(_safe)"; any other formatter is returned as it is.
_wrap_formatter(formatter) ==
    IF formatter.cls = "FuncFormatter"
    THEN [formatter EXCEPT !.wrapped = TRUE]
    ELSE formatter

\* A variant of _safe that keeps the latest failure instead of the first.
_safe_latest(errors, e) == <<FormatterErrorLine(e)>>

\* "except Exception as exc: if not formatter_errors:
\* formatter_errors.append(..)": the list after one swallowed failure.
_safe(errors, e) ==
    IF errors = <<>> THEN Append(errors, FormatterErrorLine(e)) ELSE errors

\* One draw of a figure: every failing call of a wrapped formatter goes
\* through _safe, the first failing call of an unwrapped one raises out of
\* the draw.  hist counts the swallowed failures and keeps the first.
RECURSIVE RunDraw(_, _)
RunDraw(calls, st) ==
    IF calls = <<>> \/ st.raised # NoExc THEN st
    ELSE LET c == Head(calls)
             e == TickError(c.f, c.tick)
         IN  IF c.wrapped
             THEN RunDraw(Tail(calls),
                          [st EXCEPT !.errors = _safe(@, e),
                                     !.hist = [n |-> @.n + 1,
                                               first |-> IF @.n = 0 THEN e ELSE @.first]])
             ELSE [st EXCEPT !.raised = e]

Drawn(figure, errors, hist) ==
    RunDraw(DrawCalls(figure), [errors |-> errors, hist |-> hist, raised |-> NoExc])

\* A variant of the worker that adds no placeholder panel.
NoPlotPlaceholder_skipped(fs, fg) == fs

\* "if not fig.axes: ax = fig.add_subplot(111); ax.set_axis_off();
\* ax.text(0.5, 0.55, 'No plot was generated', ..)"
NoPlotPlaceholder(fs, fg) ==
    IF fs[fg].axes = <<>> THEN AddPanel(fs, fg, Panel("noplot")) ELSE fs

\* The placeholder and the wrapping of every formatter of every panel;
\* formatter_errors = [].
Worker_Prepare ==
    /\ Running("prepare")
    /\ LET fs == NoPlotPlaceholder(figs, fig)
       IN  figs' = [fs EXCEPT ![fig].axes =
                       [i \in 1..Len(@) |->
                           [@[i] EXCEPT !.fmts =
                               [j \in 1..Len(@) |-> _wrap_formatter(@[j])]]]]
    /\ formatter_errors' = <<>>
    /\ lastCalled' = 0
    /\ lastReturned' = FALSE
    /\ lastRaised' = "None"
    /\ wpc' = "draw"
    /\ UNCHANGED << parentVars, processVars, nops, log_stream, fig, idx,
                    suppressed, pixel_std, center_std, payload, exc, raisedAt >>

\* The standard deviations the canvas yields, just below and at the
\* threshold, and the sides of the canvas in pixels.
StdLevels == {BlankThreshold - 1, BlankThreshold}
CanvasSides == {1, 5}

\* "y0, y1 = int(h * 0.2), int(h * 0.8) .. center_std = <std of the centre>
\* if (y1 > y0 and x1 > x0) else pixel_std"
center(h, w, pixel, centre) ==
    LET y0 == (h * 2) \div 10
        y1 == (h * 8) \div 10
        x0 == (w * 2) \div 10
        x1 == (w * 8) \div 10
    IN  IF y1 > y0 /\ x1 > x0 THEN centre ELSE pixel

\* "canvas.draw()", the two statistics, and "fig.savefig(buffer,
\* format='png', ..); payload['png'] = ..", which draws the figure again.
Worker_Draw ==
    /\ Running("draw")
    /\ LET d == Drawn(figs[fig], formatter_errors, suppressed)
           d2 == Drawn(figs[fig], d.errors, d.hist)
       IN  IF d.raised # NoExc
           THEN /\ formatter_errors' = d.errors
                /\ suppressed' = d.hist
                /\ Raise(d.raised, "draw")
                /\ UNCHANGED << pixel_std, center_std, payload >>
           ELSE /\ \E p \in StdLevels, c \in StdLevels, h \in CanvasSides,
                      w \in CanvasSides :
                      /\ pixel_std' = Some(p)
                      /\ center_std' = Some(center(h, w, p, c))
                /\ formatter_errors' = d2.errors
                /\ suppressed' = d2.hist
                /\ payload' = [payload EXCEPT
                       !.png = Some(b64encode(Render("png", fig, figs[fig])))]
                /\ wpc' = "save_svg"
                /\ UNCHANGED << exc, raisedAt >>
    /\ UNCHANGED << parentVars, processVars, nops, log_stream, figs, fig, idx,
                    lastCalled, lastReturned, lastRaised >>

\* "fig.savefig(svg_buffer, format='svg', ..); payload['svg'] = ..": the
\* vector backend may fail on a figure the raster backend drew.
Worker_SaveSvg ==
    /\ Running("save_svg")
    /\ LET d == Drawn(figs[fig], formatter_errors, suppressed)
       IN  /\ formatter_errors' = d.errors
           /\ suppressed' = d.hist
    /\ \E ok \in BOOLEAN :
          IF ok
          THEN /\ payload' = [payload EXCEPT
                      !.svg = Some(b64encode(Render("svg", fig, figs[fig])))]
               /\ wpc' = "classify"
               /\ UNCHANGED << exc, raisedAt >>
          ELSE /\ Raise(RenderError, "save_svg")
               /\ UNCHANGED payload
    /\ UNCHANGED << parentVars, processVars, nops, log_stream, figs, fig, idx,
                    lastCalled, lastReturned, lastRaised, pixel_std, center_std >>

\* "+ formatter_errors[0]" when the list is not empty.
FirstFormatterError(errors) ==
    IF errors # <<>> THEN <<NL, errors[1]>> ELSE <<>>

\* "if pixel_std < 2.0 or center_std < 2.0: payload['error'] = 'BLANK_PLOT'
\* .. payload['logs'] = _base_logs + '\nBLANK_PLOT_DETECTED ..'"
Classified(p, logs, errors, pixel, centre) ==
    IF pixel < BlankThreshold \/ centre < BlankThreshold
    THEN [p EXCEPT !.error = "BLANK_PLOT",
                   !.logs = logs \o FirstFormatterError(errors)
                                 \o <<NL, BlankPlotLine(pixel, centre)>>]
    ELSE p

\* The else clause of the try statement, which runs whenever the try block
\* raised nothing: "payload['logs'] = log_stream.getvalue() + (..)".
ElsePayload(p, logs, errors) ==
    [p EXCEPT !.logs = logs \o FirstFormatterError(errors)]

\* The end of the try block and the else clause.
Worker_Classify ==
    /\ Running("classify")
    /\ payload' = ElsePayload(Classified(payload, log_stream, formatter_errors,
                                         pixel_std[1], center_std[1]),
                              log_stream, formatter_errors)
    /\ wpc' = "print"
    /\ UNCHANGED << parentVars, processVars, nops, log_stream, figs, fig, idx,
                    lastCalled, lastReturned, lastRaised, formatter_errors, suppressed, pixel_std,
                    center_std, exc, raisedAt >>

\* A variant that draws the placeholder on the active figure ("plt.gcf()").
PlaceholderFigure_gcf(fs) == IF fs = <<>> THEN 1 ELSE Len(fs)

\* "fig = plt.figure()": the figure the placeholder is drawn on.
PlaceholderFigure(fs) == Len(fs) + 1

\* A variant of the except clause that also encodes a vector image.
ExceptPayload_svg(p, logs, e, image) ==
    [p EXCEPT !.error = "EXECUTION_ERROR",
              !.logs = logs \o <<NL, format_exc(e)>>,
              !.png = Some(b64encode(image)),
              !.svg = Some(b64encode([image EXCEPT !.format = "svg"]))]

\* The payload the except clause leaves.
ExceptPayload(p, logs, e, image) ==
    [p EXCEPT !.error = "EXECUTION_ERROR",
              !.logs = logs \o <<NL, format_exc(e)>>,
              !.png = Some(b64encode(image))]

\* "except Exception: .."
Worker_Except ==
    /\ Running("except")
    /\ LET id == PlaceholderFigure(figs)
           fs == IF id > Len(figs) THEN Append(figs, NewFigure("harness")) ELSE figs
           fs2 == AddPanel(fs, id, Panel("error"))
       IN  /\ figs' = fs2
           /\ fig' = id
           /\ payload' = ExceptPayload(payload, log_stream, exc,
                                       Render("png", id, fs2[id]))
    /\ lastCalled' = 0
    /\ lastReturned' = FALSE
    /\ lastRaised' = "None"
    /\ wpc' = "print"
    /\ UNCHANGED << parentVars, processVars, nops, log_stream, idx,
                    formatter_errors, suppressed, pixel_std, center_std,
                    exc, raisedAt >>

\* The placeholder cannot be rendered (its text is the tail of the stack
\* trace, which savefig parses as mathtext when it holds a pair of dollar
\* signs): the exception raised inside the handler is caught by nothing, it
\* leaves the with block and ends the program with status 1 before the
\* payload is printed; the interpreter writes its trace to standard error.
Worker_ExceptFails ==
    /\ Running("except")
    /\ LET id == PlaceholderFigure(figs)
           fs == IF id > Len(figs) THEN Append(figs, NewFigure("harness")) ELSE figs
       IN  /\ figs' = AddPanel(fs, id, Panel("error"))
           /\ fig' = id
    /\ payload' = [payload EXCEPT !.error = "EXECUTION_ERROR",
                                  !.logs = log_stream \o <<NL, format_exc(exc)>>]
    /\ exc' = RenderError
    /\ raisedAt' = "except"
    /\ returncode' = Some(1)
    /\ lastCalled' = 0
    /\ lastReturned' = FALSE
    /\ lastRaised' = "None"
    /\ wpc' = "exit"
    /\ UNCHANGED << parentVars, stdout, stderr, nops, log_stream, idx,
                    formatter_errors, suppressed, pixel_std, center_std >>

\* A variant of the exit status that is nonzero for execution errors only.
ExitStatus_lenient(p) == IF p.error = "EXECUTION_ERROR" THEN 1 ELSE 0

\* "print(json.dumps(payload)); sys.exit(0 if payload['error'] is None else 1)"
ExitStatus(p) == IF p.error = "None" THEN 0 ELSE 1

Worker_Print ==
    /\ Running("print")
    /\ stdout' = Append(stdout, ObjectLine(payload))
    /\ returncode' = Some(ExitStatus(payload))
    /\ wpc' = "exit"
    /\ UNCHANGED << parentVars, stderr, nops, log_stream, figs, fig, idx,
                    lastCalled, lastReturned, lastRaised, formatter_errors, suppressed, pixel_std,
                    center_std, payload, exc, raisedAt >>

\* The interpreter shuts down and the process ends.
Worker_Exit ==
    /\ Running("exit")
    /\ wpc' = "exited"
    /\ UNCHANGED << parentVars, processVars, nops, log_stream, figs, fig, idx,
                    lastCalled, lastReturned, lastRaised, formatter_errors, suppressed, pixel_std,
                    center_std, payload, exc, raisedAt >>

(* --------------------------- the parent process ----------------------- *)

\* A variant of uuid4 that returns the same identifier to every call.
uuid4_fixed(count) == 1

\* uuid.uuid4(): an identifier no earlier call returned; count is the number
\* of calls made so far.
uuid4(count) == count + 1

\* A variant of the runner that starts the child a second time.
Popen_again(count) == count + 2

\* subprocess.run(..) starts one child (one Popen); count is the number of
\* children started so far.
Popen(count) == count + 1

\* tempfile.mkdtemp, which TemporaryDirectory calls: a directory that did
\* not exist; count is the number of directories created so far.
mkdtemp(count) == count + 1

\* A variant of the emptiness test without the strip.
IsEmptySubmission_unstripped(req) == req.code = <<>>

\* "code = request.code.strip(); if not code: raise HTTPException(422, ..)"
IsEmptySubmission(req) == Strip(req.code) = <<>>

\* A variant of the synthesis that embeds the two lengths the other way round.
_build_worker_script_swapped(req) ==
    [user_code |-> ReplaceCrLf(req.code), figsize |-> <<req.height, req.width>>,
     dpi |-> req.dpi]

\* The synthesized program: the fixed harness around the user's code and
\* the three numbers, "safe_code_literal = repr(req.code.replace(..))".
_build_worker_script(req) ==
    [user_code |-> ReplaceCrLf(req.code), figsize |-> <<req.width, req.height>>,
     dpi |-> req.dpi]

\* "if sys.executable: return sys.executable; for candidate in ('python3',
\* 'python'): path = shutil.which(candidate); if path: return path; raise
\* FileNotFoundError(..)".  None stands for the raise.
_resolve_python_binary(executable, which) ==
    IF executable # None THEN executable
    ELSE IF which["python3"] # None THEN which["python3"]
    ELSE IF which["python"] # None THEN which["python"]
    ELSE None

\* The interpreters the host may offer.
Executables == {None, Some("sys.executable")}
Whiches == [{"python3", "python"} -> {None, Some("on PATH")}]

HTTPException(status, detail) ==
    [kind |-> "error", status_code |-> status, detail |-> detail]

\* A variant of the response that carries an identifier made for the result.
RenderResponse_fresh(value, id) ==
    [kind |-> "result", base64_png |-> value.png, base64_svg |-> value.svg,
     logs |-> value.logs, error |-> value.error, artifact_id |-> id + 1]

RenderResponse(value, id) ==
    [kind |-> "result", base64_png |-> value.png, base64_svg |-> value.svg,
     logs |-> value.logs, error |-> value.error, artifact_id |-> id]

\* A variant that removes the directory only when the block ends normally.
TemporaryDirectoryExit_normal(dirs, dir, exception) ==
    IF exception = "None" THEN {d \in dirs : d.dir # dir} ELSE dirs

\* tempfile.TemporaryDirectory.__exit__: the directory is removed whether
\* the with block ended normally or with an exception.
TemporaryDirectoryExit(dirs, dir, exception) == {d \in dirs : d.dir # dir}

\* What the child's real standard error holds when the process has ended
\* (the redirected output is not in it): nothing, a line of text (a warning
\* of the interpreter or of a library), or white space only.
StderrNoise == {<<>>, <<TextLine>>, <<BlankTextLine>>}

\* The directory of the request in flight.
OwnScratch == tmpCount

\* str.strip() of a captured stream: leading and trailing white space goes.
RECURSIVE LStripLines(_)
LStripLines(ls) ==
    IF ls # <<>> /\ Head(ls).kind = "blank" THEN LStripLines(Tail(ls)) ELSE ls

RECURSIVE RStripLines(_)
RStripLines(ls) ==
    IF ls # <<>> /\ ls[Len(ls)].kind = "blank"
    THEN RStripLines(SubSeq(ls, 1, Len(ls) - 1))
    ELSE ls

StripLines(ls) == RStripLines(LStripLines(ls))

\* dict.get(key), with what stands for None
Get(obj, key, none) == IF key \in DOMAIN obj THEN obj[key] ELSE none

Raised(what, detail) ==
    [raised |-> what, detail |-> detail, value |-> EmptyPayload]
Returned(value) == [raised |-> "None", detail |-> "", value |-> value]

\* A variant that leaves the captured standard error out of the log.
WithStderr_dropped(logs, se) == logs

\* "logs = payload.get('logs') or ''; if stderr: logs = (logs + ('\n' if
\* logs else '') + stderr)"
WithStderr(logs, se) ==
    IF se # <<>>
    THEN logs \o (IF logs # <<>> THEN <<NL>> ELSE <<>>)
              \o [i \in 1..Len(se) |-> StderrToken(se[i])]
    ELSE logs

\* A variant of the extraction that reads the first line of the output.
Extract_first(out, err) ==
    LET so == StripLines(out)
        se == StripLines(err)
    IN  IF so = <<>>
        THEN Raised("RuntimeError", "Renderer produced no output.")
        ELSE LET payload_text == so[1]
             IN  IF payload_text.kind \notin {"scalar", "object"}
                 THEN Raised("RuntimeError", "Invalid renderer payload")
                 ELSE IF payload_text.kind = "scalar"
                 THEN Raised("AttributeError", "object has no attribute 'get'")
                 ELSE LET p == payload_text.val
                          logs == WithStderr(Get(p, "logs", <<>>), se)
                     IN  Returned([png |-> Get(p, "png", None),
                                   svg |-> Get(p, "svg", None),
                                   logs |-> logs,
                                   error |-> Get(p, "error", "None")])

\* _run_worker_script after the with block: "stdout = proc.stdout.strip()
\* .. return payload.get('png'), payload.get('svg'), logs,
\* payload.get('error')".  json.loads fails on a line that is no JSON;
\* what it decodes that is no object has no get.
Extract(out, err) ==
    LET so == StripLines(out)
        se == StripLines(err)
    IN  IF so = <<>>
        THEN Raised("RuntimeError", "Renderer produced no output.")
        ELSE LET payload_text == so[Len(so)]
             IN  IF payload_text.kind \notin {"scalar", "object"}
                 THEN Raised("RuntimeError", "Invalid renderer payload")
                 ELSE IF payload_text.kind = "scalar"
                 THEN Raised("AttributeError", "object has no attribute 'get'")
                 ELSE LET p == payload_text.val
                          logs == WithStderr(Get(p, "logs", <<>>), se)
                     IN  Returned([png |-> Get(p, "png", None),
                                   svg |-> Get(p, "svg", None),
                                   logs |-> logs,
                                   error |-> Get(p, "error", "None")])

\* A variant of the runner that extracts whatever a timed-out child wrote.
RunOutcome_partial(expired, out, err) == Extract(out, err)

\* subprocess.run(.., timeout=timeout) and what follows it: TimeoutExpired
\* leaves the function, whatever the child has written.
RunOutcome(expired, out, err) ==
    IF expired THEN Raised("TimeoutExpired", "") ELSE Extract(out, err)

\* A variant of the except clauses whose answer carries an image field.
ErrorResponse_image(outcome) ==
    [kind |-> "error", status_code |-> 500, detail |-> outcome.detail,
     base64_png |-> outcome.value.png]

\* The except clauses of render_plot.
ErrorResponse(outcome) ==
    IF outcome.raised = "TimeoutExpired"
    THEN HTTPException(504, "Renderer timed out.")
    ELSE IF outcome.raised = "FileNotFoundError"
    THEN HTTPException(500, "Python interpreter not available.")
    ELSE HTTPException(500, outcome.detail)

\* A variant of the archiver that never writes the raster file.
_persist_artifacts_text(root, id, worker_code, png_b64, logs) ==
    LET old == {a \in root : a.id = id}
        kept == IF old = {} THEN NoFields ELSE (CHOOSE a \in old : TRUE).files
    IN  (root \ old) \cup
            {[id |-> id,
              files |-> [worker_py |-> worker_code, logs_txt |-> logs] @@ kept]}

\* _persist_artifacts: "artifact_dir.mkdir(parents=True, exist_ok=True)",
\* the two files written in any case, "if png_b64: .. write_bytes(..)".
_persist_artifacts(root, id, worker_code, png_b64, logs) ==
    LET old == {a \in root : a.id = id}
        kept == IF old = {} THEN NoFields ELSE (CHOOSE a \in old : TRUE).files
        written ==
            IF png_b64 # None
            THEN [worker_py |-> worker_code, logs_txt |-> logs,
                  plot_png |-> b64decode(png_b64[1])]
            ELSE [worker_py |-> worker_code, logs_txt |-> logs]
    IN  (root \ old) \cup {[id |-> id, files |-> written @@ kept]}

KillWorker ==
    /\ wpc' = "killed"
    /\ nops' = 0
    /\ log_stream' = <<>>
    /\ figs' = <<>>
    /\ fig' = 0
    /\ idx' = 0
    /\ lastCalled' = 0
    /\ lastReturned' = FALSE
    /\ lastRaised' = "None"
    /\ formatter_errors' = <<>>
    /\ suppressed' = NoneSuppressed
    /\ pixel_std' = None
    /\ center_std' = None
    /\ payload' = EmptyPayload
    /\ exc' = NoExc
    /\ raisedAt' = "nowhere"

\* An all-whitespace submission: HTTP 422.
RenderPlot_Reject ==
    /\ pc = "idle"
    /\ \E req \in Requests :
          /\ IsEmptySubmission(req)
          /\ request' = req
    /\ response' = Some(HTTPException(422, "Submitted code is empty."))
    /\ pc' = "done"
    /\ UNCHANGED << handlers, artifact_id, worker_script, scratch, artifacts, uuids,
                    tmpCount, spawned, timedOut, processVars, workerVars >>

\* No interpreter resolves: _run_worker_script raises FileNotFoundError
\* before the scratch directory is created.
RenderPlot_NoInterpreter ==
    /\ pc = "idle"
    /\ \E req \in Requests :
          /\ ~IsEmptySubmission(req)
          /\ request' = req
          /\ worker_script' = Some(_build_worker_script(req))
    /\ \E executable \in Executables, which \in Whiches :
          _resolve_python_binary(executable, which) = None
    /\ artifact_id' = Some(uuid4(uuids))
    /\ uuids' = uuids + 1
    /\ response' = Some(ErrorResponse(Raised("FileNotFoundError", "")))
    /\ pc' = "done"
    /\ UNCHANGED << handlers, scratch, artifacts, tmpCount, spawned, timedOut,
                    processVars, workerVars >>

\* The child cannot be started: subprocess.run raises inside the with block.
RenderPlot_SpawnFails ==
    /\ pc = "idle"
    /\ \E req \in Requests :
          /\ ~IsEmptySubmission(req)
          /\ request' = req
          /\ worker_script' = Some(_build_worker_script(req))
    /\ \E executable \in Executables, which \in Whiches :
          _resolve_python_binary(executable, which) # None
    /\ artifact_id' = Some(uuid4(uuids))
    /\ uuids' = uuids + 1
    /\ tmpCount' = tmpCount + 1
    /\ \E error \in {"FileNotFoundError", "PermissionError"} :
          /\ scratch' = TemporaryDirectoryExit(
                            scratch \cup {[dir |-> mkdtemp(tmpCount),
                                           worker_py |-> _build_worker_script(request')]},
                            mkdtemp(tmpCount), error)
          /\ response' = Some(ErrorResponse(Raised(error, "cannot execute")))
    /\ pc' = "done"
    /\ UNCHANGED << handlers, artifacts, spawned, timedOut, processVars, workerVars >>

\* The request is accepted and the child is started: lines 217 to 468.
RenderPlot_Spawn ==
    /\ pc = "idle"
    /\ \E req \in Requests :
          /\ ~IsEmptySubmission(req)
          /\ request' = req
          /\ worker_script' = Some(_build_worker_script(req))
    /\ \E executable \in Executables, which \in Whiches :
          _resolve_python_binary(executable, which) # None
    /\ artifact_id' = Some(uuid4(uuids))
    /\ uuids' = uuids + 1
    /\ tmpCount' = tmpCount + 1
    /\ scratch' = scratch \cup {[dir |-> mkdtemp(tmpCount),
                                 worker_py |-> _build_worker_script(request')]}
    /\ spawned' = Popen(spawned)
    /\ wpc' = "exec"
    /\ pc' = "waiting"
    /\ UNCHANGED << handlers, artifacts, response, timedOut, processVars, nops,
                    log_stream, figs, fig, idx, lastCalled, lastReturned, lastRaised, formatter_errors,
                    suppressed, pixel_std, center_std, payload, exc, raisedAt >>

\* A variant of the wait in which the deadline never expires for a child
\* that blocks.
TimeoutExpires_unless_hung(position) == position \notin {"exited", "hung"}

\* "subprocess.run(.., timeout=timeout, ..)": the deadline can expire
\* wherever the child is in its program, as long as it has not exited.
TimeoutExpires(position) == position # "exited"

\* The deadline expires while the child is running: subprocess.run kills the
\* child and raises TimeoutExpired; render_plot answers 504.
RunWorker_Timeout ==
    /\ pc = "waiting"
    /\ TimeoutExpires(wpc)
    /\ timedOut' = TRUE
    /\ KillWorker
    /\ scratch' = TemporaryDirectoryExit(scratch, OwnScratch, "TimeoutExpired")
    /\ response' = Some(ErrorResponse(RunOutcome(TRUE, stdout, stderr)))
    /\ pc' = "done"
    /\ UNCHANGED << handlers, request, artifact_id, worker_script, artifacts, uuids,
                    tmpCount, spawned, processVars >>

\* The child has exited: subprocess.run returns, the with block ends, the
\* output is extracted, the artifacts are written and the response is built.
\* Writing the artifacts is outside render_plot's try statement: a failure of
\* the disk leaves the handler as an unhandled error.
RenderPlot_Complete ==
    /\ pc = "waiting"
    /\ wpc = "exited"
    /\ scratch' = TemporaryDirectoryExit(scratch, OwnScratch, "None")
    /\ \E noise \in StderrNoise :
          /\ raisedAt = "except" => noise = <<TextLine>>
          /\ stderr' = noise
    /\ LET outcome == RunOutcome(FALSE, stdout, stderr')
       IN  IF outcome.raised # "None"
           THEN /\ response' = Some(ErrorResponse(outcome))
                /\ UNCHANGED artifacts
           ELSE \E diskOk \in BOOLEAN :
                   IF diskOk
                   THEN /\ artifacts' = _persist_artifacts(
                                            artifacts, artifact_id[1],
                                            worker_script[1], outcome.value.png,
                                            outcome.value.logs)
                        /\ response' = Some(RenderResponse(outcome.value,
                                                           artifact_id[1]))
                   ELSE /\ UNCHANGED artifacts
                        /\ response' = Some(HTTPException(500, "Internal Server Error"))
    /\ pc' = "done"
    /\ nops' = 0
    /\ log_stream' = <<>>
    /\ figs' = <<>>
    /\ fig' = 0
    /\ idx' = 0
    /\ lastCalled' = 0
    /\ lastReturned' = FALSE
    /\ lastRaised' = "None"
    /\ formatter_errors' = <<>>
    /\ pixel_std' = None
    /\ center_std' = None
    /\ UNCHANGED << handlers, request, artifact_id, worker_script, uuids, tmpCount,
                    spawned, timedOut, stdout, returncode, wpc, suppressed,
                    payload, exc, raisedAt >>

(* --------------------------- the specification ------------------------ *)

Next ==
    \/ RenderPlot_Reject
    \/ RenderPlot_NoInterpreter
    \/ RenderPlot_SpawnFails
    \/ RenderPlot_Spawn
    \/ RunWorker_Timeout
    \/ RenderPlot_Complete
    \/ User_Print
    \/ User_DirectWrite
    \/ User_NewFigure
    \/ User_Plot
    \/ User_SetFormatter
    \/ User_PltClose
    \/ User_FigureClear
    \/ User_Draw
    \/ User_Raise
    \/ User_SystemExit
    \/ User_Hang
    \/ User_Finish
    \/ Worker_TryEntryPoint
    \/ Worker_Prepare
    \/ Worker_Draw
    \/ Worker_SaveSvg
    \/ Worker_Classify
    \/ Worker_Except
    \/ Worker_ExceptFails
    \/ Worker_Print
    \/ Worker_Exit

Spec == Init /\ [][Next]_vars

\* The timeout of a request is between 1 and 600 seconds: while the child
\* has not exited the deadline does expire, and once the child has exited
\* subprocess.run returns and the handler runs to its end.
LiveSpec ==
    /\ Spec
    /\ WF_vars(RunWorker_Timeout)
    /\ WF_vars(RenderPlot_Complete)

(* ------------------- requests handled at the same time --------------- *)

\* render_plot is a plain function: the server runs every call of it in a
\* thread of its pool, so several requests are inside it at once.  Each
\* thread has its own locals; the threads share uuid4, the temporary
\* directory root and ARTIFACT_ROOT.  A handler takes the steps of
\* render_plot one at a time; its child is reduced to what it leaves on its
\* standard output.

\* What stays as it is while the pool's threads run.
oneRequestVars ==
    << pc, request, artifact_id, worker_script, response, timedOut,
       processVars, workerVars >>

\* What the handlers are sent: white space only, or a script.
HandlerRequests == {req \in Requests : req.code \in {<<"sp">>, <<"x">>}}

\* What a child leaves on its standard output: nothing, a record without
\* fields, a payload without an image, a payload with one.
ChildOutputs ==
    { <<>>,
      <<ObjectLine(NoFields)>>,
      <<ObjectLine([EmptyPayload EXCEPT !.logs = <<Out>>])>>,
      <<ObjectLine([EmptyPayload EXCEPT
            !.png = Some(b64encode(Render("png", 1,
                        AddPanel(<<NewFigure("user")>>, 1, Panel("script"))[1])))])>> }

\* "code = request.code.strip(); if not code: raise HTTPException(422, ..)"
Handler_Reject(h) ==
    /\ handlers[h].pc = "idle"
    /\ \E req \in HandlerRequests :
          /\ IsEmptySubmission(req)
          /\ handlers' = [handlers EXCEPT
                ![h].pc = "done",
                ![h].request = req,
                ![h].response = Some(HTTPException(422, "Submitted code is empty."))]
    /\ UNCHANGED << oneRequestVars, scratch, artifacts, uuids, tmpCount, spawned >>

\* "artifact_id = uuid.uuid4().hex; worker_script = _build_worker_script(request)"
Handler_Accept(h) ==
    /\ handlers[h].pc = "idle"
    /\ \E req \in HandlerRequests :
          /\ ~IsEmptySubmission(req)
          /\ handlers' = [handlers EXCEPT
                ![h].pc = "accepted",
                ![h].request = req,
                ![h].artifact_id = Some(uuid4(uuids)),
                ![h].worker_script = Some(_build_worker_script(req))]
    /\ uuids' = uuids + 1
    /\ UNCHANGED << oneRequestVars, scratch, artifacts, tmpCount, spawned >>

\* _run_worker_script up to subprocess.run: the scratch directory is made
\* and worker.py written into it, the child is started.
Handler_EnterRunner(h) ==
    /\ handlers[h].pc = "accepted"
    /\ handlers' = [handlers EXCEPT ![h].pc = "waiting",
                                    ![h].tmpdir = Some(mkdtemp(tmpCount))]
    /\ tmpCount' = tmpCount + 1
    /\ scratch' = scratch \cup {[dir |-> mkdtemp(tmpCount),
                                 worker_py |-> handlers[h].worker_script[1]]}
    /\ spawned' = Popen(spawned)
    /\ UNCHANGED << oneRequestVars, artifacts, uuids >>

\* subprocess.run returns or raises TimeoutExpired: the with block ends,
\* the output is extracted; a failure is answered at once.
Handler_LeaveRunner(h) ==
    /\ handlers[h].pc = "waiting"
    /\ \E expired \in BOOLEAN, out \in ChildOutputs, err \in StderrNoise :
          LET outcome == RunOutcome(expired, out, err)
          IN  /\ scratch' = TemporaryDirectoryExit(scratch, handlers[h].tmpdir[1],
                                                   outcome.raised)
              /\ handlers' = [handlers EXCEPT
                    ![h].pc = IF outcome.raised = "None" THEN "extracted" ELSE "done",
                    ![h].outcome = Some(outcome),
                    ![h].response = IF outcome.raised = "None" THEN None
                                    ELSE Some(ErrorResponse(outcome))]
    /\ UNCHANGED << oneRequestVars, artifacts, uuids, tmpCount, spawned >>

\* "_persist_artifacts(artifact_id, worker_script, png_b64, logs); return
\* RenderResponse(..)"
Handler_Persist(h) ==
    /\ handlers[h].pc = "extracted"
    /\ LET value == handlers[h].outcome[1].value
           id == handlers[h].artifact_id[1]
       IN  /\ artifacts' = _persist_artifacts(artifacts, id,
                                              handlers[h].worker_script[1],
                                              value.png, value.logs)
           /\ handlers' = [handlers EXCEPT
                 ![h].pc = "done",
                 ![h].response = Some(RenderResponse(value, id))]
    /\ UNCHANGED << oneRequestVars, scratch, uuids, tmpCount, spawned >>

NextConcurrent ==
    \E h \in Handlers :
        \/ Handler_Reject(h)
        \/ Handler_Accept(h)
        \/ Handler_EnterRunner(h)
        \/ Handler_LeaveRunner(h)
        \/ Handler_Persist(h)

ConcurrentSpec == Init /\ [][NextConcurrent]_vars

(* ------------------------------ properties ---------------------------- *)

Range(s) == {s[i] : i \in 1..Len(s)}

\* The worker has printed its payload: the program is past line 447 and
\* did not leave the with block by an exception.
HasPrinted ==
    /\ wpc \in {"exit", "exited"}
    /\ exc.cls # "SystemExit"
    /\ raisedAt # "except"
\* The payload it printed: the last line of its standard output.
Printed == stdout[Len(stdout)].val

\* The child is past line 447 and the parent has not yet read its output.
PrintedUnread == pc = "waiting" /\ HasPrinted

\* The request has been answered.
Answered == pc = "done" /\ response # None
Answer == response[1]
IsResult == Answered /\ Answer.kind = "result"

\* The answer to a request whose archive could not be written.
DiskFailure == HTTPException(500, "Internal Server Error")

\* C1: whenever a run is classified blank-plot, the log text of the payload
\* the worker prints, and of the result the caller receives, contains the
\* blank-plot diagnostic line with both computed statistics.
C1_BlankPlotLogHasDiagnostic ==
    /\ (PrintedUnread /\ Printed.error = "BLANK_PLOT")
          => BlankPlotLine(pixel_std[1], center_std[1]) \in Range(Printed.logs)
    /\ (IsResult /\ Answer.error = "BLANK_PLOT")
          => \E tok \in Range(Answer.logs) : tok.t = "blank_plot_detected"

\* C2: when executing the user's code raises an exception, the printed
\* payload is classified execution-error, its log text is the captured output
\* followed by the formatted stack trace of that exception, and its raster
\* image is the error placeholder alone, rendered on a figure the harness
\* created and not on a figure of the script.
C2_ExecErrorPayload ==
    (PrintedUnread /\ raisedAt = "exec") =>
        /\ Printed.error = "EXECUTION_ERROR"
        /\ Printed.logs = log_stream \o <<NL, format_exc(exc)>>
        /\ Printed.png # None
        /\ LET image == b64decode(Printed.png[1])
           IN  /\ image.format = "png"
               /\ image.panels = <<"error">>
               /\ image.fig \in 1..Len(figs)
               /\ figs[image.fig].by = "harness"
               /\ \A i \in 1..Len(figs) : figs[i].by = "user" => i < image.fig

\* A script that printed, drew a panel and then raised.
C2_Witness ==
    /\ PrintedUnread
    /\ raisedAt = "exec"
    /\ exc = UserError
    /\ log_stream # <<>>
    /\ \E i \in 1..Len(figs) : figs[i].by = "user" /\ figs[i].axes # <<>>

\* C3: a failure of the user's code while it executes (an exception or an
\* early termination), a blank render or a raising tick-label callback never
\* ends the request with an error response: the caller receives a result.
C3_UserFailuresNeverFatal ==
    (/\ Answered
     /\ wpc = "exited"
     /\ Answer # DiskFailure
     /\ \/ raisedAt = "exec"
        \/ suppressed.n > 0
        \/ (HasPrinted /\ Printed.error = "BLANK_PLOT"))
        => Answer.kind = "result"

\* C4: when the deadline expires before the child has exited, the child is
\* killed and the request ends with the timeout failure; nothing the child
\* wrote is extracted, returned or archived.
C4_TimeoutIsFatal ==
    timedOut =>
        /\ pc = "done"
        /\ wpc = "killed"
        /\ response = Some(HTTPException(504, "Renderer timed out."))
        /\ artifacts = {}

\* The deadline expired after the child had printed a complete payload.
C4_Witness ==
    /\ timedOut
    /\ stdout # <<>>
    /\ stdout[Len(stdout)].kind = "object"
    /\ DOMAIN stdout[Len(stdout)].val = {"png", "svg", "logs", "error"}
    /\ stdout[Len(stdout)].val.png # None

\* C5: once the runner has returned or raised, the scratch directory it
\* created no longer exists, on every exit path.
C5_ScratchRemoved ==
    /\ pc = "done" => scratch = {}
    /\ pc = "waiting" => scratch = {[dir |-> OwnScratch, worker_py |-> worker_script[1]]}

\* The runner created a scratch directory and left by the timeout.
C5_Witness == pc = "done" /\ tmpCount = 1 /\ timedOut

\* C6: a submission that is empty after trimming white space is answered
\* with an error, and no program is synthesized, no identifier generated, no
\* scratch directory created, no child spawned and no artifact written.
C6_EmptySubmissionRejected ==
    (pc # "idle" /\ Strip(request.code) = <<>>) =>
        /\ pc = "done"
        /\ response = Some(HTTPException(422, "Submitted code is empty."))
        /\ worker_script = None
        /\ artifact_id = None
        /\ uuids = 0
        /\ tmpCount = 0
        /\ scratch = {}
        /\ spawned = 0
        /\ wpc = "none"
        /\ artifacts = {}

\* A submission of white space only has been answered.
C6_Witness ==
    /\ pc = "done"
    /\ request.code # <<>>
    /\ Strip(request.code) = <<>>

\* The output the extractor reads, trimmed, and its last line.
TrimmedOutput == StripLines(stdout)
LastLine == TrimmedOutput[Len(TrimmedOutput)]
PayloadFields == {"png", "svg", "logs", "error"}

C8_ResultHasRaster ==
    IsResult => Answer.base64_png # None

\* C9: in every payload the worker prints, the vector image is absent when
\* the classification is execution-error and present when it is none or
\* blank-plot, wherever the exception was raised.
C9_VectorIffNoException ==
    HasPrinted =>
        /\ Printed.error \in {"None", "BLANK_PLOT", "EXECUTION_ERROR"}
        /\ Printed.error = "EXECUTION_ERROR" <=> raisedAt # "nowhere"
        /\ Printed.error = "EXECUTION_ERROR" => Printed.svg = None
        /\ Printed.error \in {"None", "BLANK_PLOT"} =>
              /\ Printed.svg # None
              /\ b64decode(Printed.svg[1]).format = "svg"

\* The vector backend failed after the raster image had been encoded.
C9_Witness ==
    /\ HasPrinted
    /\ raisedAt = "save_svg"
    /\ Printed.error = "EXECUTION_ERROR"
    /\ Printed.png # None

\* The suppressed-formatter-error lines of a log text, in order.
IsFormatterError(tok) == tok.t = "formatter_error"
FormatterErrorLines(logs) == SelectSeq(logs, IsFormatterError)

\* C10: the log text of a none or blank-plot payload contains exactly one
\* suppressed-formatter-error line, that of the first failure, when tick-label
\* callbacks raised while the harness rendered the figure, however many
\* failed and however often the figure was drawn, and none when none raised.
C10_OneFormatterErrorLine ==
    (HasPrinted /\ Printed.error \in {"None", "BLANK_PLOT"}) =>
        FormatterErrorLines(Printed.logs) =
            IF suppressed.n > 0
            THEN <<FormatterErrorLine(suppressed.first)>>
            ELSE <<>>

\* A callback failed on more than one tick value in each of the three draws.
C10_Witness ==
    /\ HasPrinted
    /\ Printed.error \in {"None", "BLANK_PLOT"}
    /\ suppressed.n >= 6
    /\ FormatterErrorLines(Printed.logs) # <<>>

\* The script installed a tick-label callback that raises on some values.
HasRaisingFormatter ==
    \E i \in 1..Len(figs) : \E j \in 1..Len(figs[i].axes) :
        figs[i].axes[j].fmts # <<>>

\* The only failures of the run, if any, are failures of such a callback.
OnlyTickErrors == exc = NoExc \/ exc.msg # <<0, 0>>

\* C11: a script that installs a tick-label callback which raises for some
\* tick values, and fails in no other way, completes with classification
\* none or blank-plot, never execution-error, whatever else it does with the
\* figure.
C11_FormatterNeverExecutionError ==
    (PrintedUnread /\ HasRaisingFormatter /\ OnlyTickErrors)
        => Printed.error \in {"None", "BLANK_PLOT"}

\* The discovery loop has ended and the figure is not yet prepared.
Discovered == pc = "waiting" /\ wpc = "prepare"
\* The figure an entry point returned, as the harness holds it.
ReturnedFigure == [axes |-> <<Panel("returned")>>, by |-> "user"]

OwnArtifacts == {a \in artifacts : artifact_id # None /\ a.id = artifact_id[1]}

PayloadLines ==
    {i \in 1..Len(stdout) :
        stdout[i].kind = "object" /\ DOMAIN stdout[i].val = PayloadFields}

\* C14: a run that reaches the end of the worker program has printed the
\* payload exactly once, as the last line of its standard output, and exits
\* with status 0 exactly when the classification is none, with a nonzero
\* status when it is execution-error or blank-plot.
C14_PrintsOnceThenExits ==
    HasPrinted =>
        /\ stdout # <<>>
        /\ stdout[Len(stdout)] = ObjectLine(payload)
        /\ PayloadLines = {Len(stdout)}
        /\ returncode # None
        /\ returncode[1] = 0 <=> payload.error = "None"
        /\ payload.error \in {"EXECUTION_ERROR", "BLANK_PLOT"} => returncode[1] > 0

\* A blank-plot payload printed after the script wrote a line of its own.
C14_Witness ==
    /\ HasPrinted
    /\ payload.error = "BLANK_PLOT"
    /\ Len(stdout) = 2
    /\ returncode = Some(1)

\* C15: for every request that ends with a result, the archive holds one
\* directory under the request's identifier, with the program text and the
\* log text of the result, and with the decoded raster image if and only if
\* the result carries one.
C15_ArchiveOfEveryResult ==
    IsResult =>
        /\ Cardinality(OwnArtifacts) = 1
        /\ \A a \in OwnArtifacts :
              /\ a.id = Answer.artifact_id
              /\ DOMAIN a.files =
                    {"worker_py", "logs_txt"}
                        \cup (IF Answer.base64_png # None THEN {"plot_png"} ELSE {})
              /\ a.files.worker_py = worker_script[1]
              /\ a.files.logs_txt = Answer.logs
              /\ Answer.base64_png # None =>
                    a.files.plot_png = b64decode(Answer.base64_png[1])

\* A result without a raster image was archived: two files, no plot.png.
C15_Witness ==
    /\ IsResult
    /\ Answer.base64_png = None
    /\ \E a \in OwnArtifacts : DOMAIN a.files = {"worker_py", "logs_txt"}

\* The handlers that have an identifier, are inside the runner, have returned
\* a result.
Identified == {h \in Handlers : handlers[h].artifact_id # None}
InRunner == {h \in Handlers : handlers[h].pc = "waiting"}
WithResult ==
    {h \in Handlers : handlers[h].pc = "done" /\ handlers[h].response[1].kind = "result"}

\* C16: however the requests handled at the same time interleave, no two
\* of them have the same identifier or the same scratch directory, every
\* scratch directory that exists belongs to one request inside the runner
\* and holds its program, and every result's artifact directory still holds
\* exactly what was written for that result.
C16_NoSharedDirectories ==
    /\ \A g, h \in Identified :
          g # h => handlers[g].artifact_id # handlers[h].artifact_id
    /\ \A g, h \in InRunner : g # h => handlers[g].tmpdir # handlers[h].tmpdir
    /\ scratch = {[dir |-> handlers[h].tmpdir[1],
                   worker_py |-> handlers[h].worker_script[1]] : h \in InRunner}
    /\ Cardinality(scratch) = Cardinality(InRunner)
    /\ Cardinality(artifacts) = Cardinality(WithResult)
    /\ \A h \in WithResult :
          LET r == handlers[h].response[1]
          IN  \E a \in artifacts :
                 /\ a.id = r.artifact_id
                 /\ a.id = handlers[h].artifact_id[1]
                 /\ a.files.worker_py = handlers[h].worker_script[1]
                 /\ a.files.logs_txt = r.logs
                 /\ "plot_png" \in DOMAIN a.files <=> r.base64_png # None

\* One request is inside the runner while another, accepted before it, has
\* already archived its result.
C16_Witness ==
    \E g, h \in Handlers :
        /\ g \in WithResult
        /\ h \in InRunner
        /\ handlers[h].artifact_id[1] < handlers[g].artifact_id[1]
        /\ handlers[g].response[1].base64_png # None

\* The request passed validation; the interpreter resolved (the scratch
\* directory is created only after it has).
Validated == pc # "idle" /\ Strip(request.code) # <<>>
Resolved == tmpCount > 0

TrimmedError == StripLines(stderr)

\* C18: the image fields and the classification of a result are those of
\* the decoded payload, and its log text is the payload's log field when the
\* captured standard error is empty, and otherwise that field followed by
\* the captured standard error.
C18_ResultIsPayloadPlusStderr ==
    IsResult =>
        LET p == LastLine.val
            log == Get(p, "logs", <<>>)
        IN  /\ Answer.base64_png = Get(p, "png", None)
            /\ Answer.base64_svg = Get(p, "svg", None)
            /\ Answer.error = Get(p, "error", "None")
            /\ TrimmedError = <<>> => Answer.logs = log
            /\ TrimmedError # <<>> =>
                  /\ Len(Answer.logs) >= Len(log) + Len(TrimmedError)
                  /\ SubSeq(Answer.logs, 1, Len(log)) = log
                  /\ SubSeq(Answer.logs, Len(Answer.logs) - Len(TrimmedError) + 1,
                            Len(Answer.logs))
                        = [i \in 1..Len(TrimmedError) |-> StderrToken(TrimmedError[i])]
                  /\ Len(Answer.logs) - Len(log) - Len(TrimmedError)
                        = IF log # <<>> THEN 1 ELSE 0

\* A result whose payload log is not empty and whose child wrote to its
\* standard error.
C18_Witness ==
    /\ IsResult
    /\ TrimmedError # <<>>
    /\ Get(LastLine.val, "logs", <<>>) # <<>>
    /\ Answer.base64_png # None

\* The request ended with a fatal failure of the runner or the extractor.
FatalFailure == Answered /\ Answer.kind = "error" /\ Answer # DiskFailure

\* C19: a request that ends with a fatal failure (no interpreter, timeout,
\* empty output, malformed last line) is answered with an error that carries
\* a status and a description and no image, and nothing is archived for it.
C19_FatalHasNoImageNoArtifact ==
    FatalFailure =>
        /\ DOMAIN Answer = {"kind", "status_code", "detail"}
        /\ Answer.status_code \in {422, 500, 504}
        /\ artifacts = {}
        /\ timedOut => Answer.status_code = 504
        /\ (wpc = "exited" /\ TrimmedOutput = <<>>) => Answer.status_code = 500

\* The child printed a line that is no JSON as its last: nothing archived.
C19_Witness ==
    /\ FatalFailure
    /\ Answer = HTTPException(500, "Invalid renderer payload")
    /\ stdout # <<>>
    /\ artifact_id # None

\* C20 as stated: the identifier is generated at extraction and not
\* earlier, so none exists while the child runs, and a request that fails
\* before a result is extracted has none generated.
C20_IdentifierGeneratedAtExtraction ==
    /\ pc = "waiting" => (artifact_id = None /\ uuids = 0)
    /\ (Answered /\ Answer.kind = "error" /\ Answer # DiskFailure) => uuids = 0

\* C20: the identifier is generated when the request has passed validation,
\* before the program is synthesized and the child is started, whatever the
\* child does; it is the identifier the result carries; a request that
\* passed validation and fails afterwards has had one generated, a rejected
\* request has not.
C20_IdentifierGeneratedAtAcceptance ==
    /\ uuids <= 1
    /\ artifact_id # None <=> uuids = 1
    /\ pc # "idle" => (artifact_id # None <=> Validated)
    /\ pc = "waiting" => artifact_id # None
    /\ worker_script # None => artifact_id # None
    /\ IsResult => Answer.artifact_id = artifact_id[1]

\* A request that timed out, with the identifier generated for it.
C20_Witness ==
    /\ Answered
    /\ timedOut
    /\ Answer.kind = "error"
    /\ artifact_id # None
    /\ uuids = 1

\* Every figure that has panels before a step still has panels after it.
PopulatedFiguresKept ==
    \A i \in 1..Len(figs) :
        figs[i].axes # <<>> => (i <= Len(figs') /\ figs'[i].axes # <<>>)

\* C21: no close or clear operation the user's script invokes has an effect:
\* in every step of the running script a figure that has drawable contents
\* keeps some, so a figure the script populated at some point is still
\* populated when the harness selects the figure to capture.
C21_CloseAndClearHaveNoEffect ==
    [][(Running("exec") /\ pc' = "waiting") => PopulatedFiguresKept]_vars

\* The harness is between the placeholder step and the end of the try block:
\* it draws the selected figure, measures it and encodes it.
Rendering == pc = "waiting" /\ wpc \in {"draw", "save_svg", "classify"}

IsPlaceholder(panel) == panel.src = "noplot"

\* C22: the figure that is drawn, checked for blankness and encoded has at
\* least one panel; the "No plot was generated" panel is in it exactly when
\* the figure selected after discovery had none, and is then its only
\* panel; the images of a payload without execution error show a panel.
C22_RenderedFigureHasPanel ==
    /\ Rendering =>
          /\ figs[fig].axes # <<>>
          /\ SelectSeq(figs[fig].axes, IsPlaceholder) # <<>>
                => figs[fig].axes = <<Panel("noplot")>>
          /\ \A i \in 1..Len(figs) :
                (i # fig) => SelectSeq(figs[i].axes, IsPlaceholder) = <<>>
    /\ (Rendering /\ wpc # "draw") =>
          b64decode(payload.png[1]).panels # <<>>
    /\ (PrintedUnread /\ Printed.error # "EXECUTION_ERROR") =>
          /\ b64decode(Printed.png[1]).panels # <<>>
          /\ b64decode(Printed.svg[1]).panels # <<>>

\* Neither the script nor an entry point drew anything: the placeholder is
\* what the payload shows.
C22_Witness ==
    /\ PrintedUnread
    /\ Printed.error # "EXECUTION_ERROR"
    /\ b64decode(Printed.png[1]).panels = <<"noplot">>
    /\ figs[fig].axes = <<Panel("noplot")>>

\* The discovery loop is at the top of an iteration or has just ended.
Searching == pc = "waiting" /\ wpc \in {"discover", "prepare"}

\* C23: an entry point whose call with no arguments fails with a
\* parameter-count mismatch is skipped, the search going on with the next
\* name and no exception being handled, whereas an entry point that raises
\* any other exception ends the try block in the handler of the execution
\* error, with that exception.
C23_OnlyMismatchSkipped ==
    /\ lastRaised = "mismatch" =>
          /\ Searching
          /\ exc = NoExc
          /\ lastCalled < Len(entry_points) => (wpc = "discover" /\ idx = lastCalled + 1)
    /\ lastRaised \notin {"None", "mismatch"} =>
          /\ pc = "waiting" /\ wpc = "except"
          /\ exc.cls = lastRaised
          /\ raisedAt = "entry"

\* The child has exited in time and its output holds a payload: a result
\* has been extracted for the request.
Extraction == RunOutcome(FALSE, stdout, stderr)
Extracted ==
    /\ pc = "done"
    /\ spawned = 1
    /\ ~timedOut
    /\ Extraction.raised = "None"

\* C24: a failure while the artifacts of an extracted result are written
\* does not make the request fail: whenever a result has been extracted, the
\* caller receives that result, with the identifier of the request.
C24_ArchivingIsBestEffort ==
    Extracted =>
        /\ IsResult
        /\ Answer = RenderResponse(Extraction.value, artifact_id[1])

\* How an ended request that passed validation has ended.
EndedProperly ==
    /\ Answered
    /\ Answer.kind \in {"result", "error"}
    /\ Answer.kind = "result" => (spawned = 1 /\ wpc = "exited" /\ ~timedOut)
    /\ timedOut =>
          /\ wpc = "killed"
          /\ Answer = HTTPException(504, "Renderer timed out.")
    /\ spawned = 1 => (wpc = "exited" \/ timedOut)

\* C25: every request that passed validation terminates: the handler that
\* waits for the child does reach its end, the child having exited or
\* having been killed at the deadline; the request then has exactly one
\* answer, a structured result or a fatal error, which does not change.
C25_AcceptedRequestTerminates ==
    /\ (pc = "waiting") ~> (pc = "done")
    /\ []((pc = "done" /\ Validated) => EndedProperly)
    /\ [](pc = "waiting" => (Validated /\ response = None))
    /\ [][pc = "done" => (pc' = "done" /\ response' = response)]_vars

\* The child was killed at the deadline and the request ended with the
\* fatal error of the timeout.
C25_Witness ==
    /\ pc = "done"
    /\ Validated
    /\ timedOut
    /\ wpc = "killed"
    /\ Answer = HTTPException(504, "Renderer timed out.")

\* C26: an entry point is invoked only while the figure selected so far has
\* no drawable contents: whenever the discovery loop is about to try a name,
\* the selected figure is empty, at the first name because the script left
\* the active figure empty and at a later name because no populated figure
\* has been selected; the names are visited one by one, so none is invoked
\* twice.
C26_InvokedOnlyWhileEmpty ==
    (pc = "waiting" /\ wpc = "discover") =>
        /\ figs[fig].axes = <<>>
        /\ idx = 1 => fig = Active(figs)
        /\ idx \in 1..Len(entry_points)
        /\ lastCalled < idx
====
